---- MODULE Spec2Model ----
(***************************************************************************)
(* The schema-tree wrapping engine of alpakka (alpakka.wrapper): the       *)
(* depth-first construction of the wrapped object graph of one YANG module *)
(* by Module / Grouponder / Typonder, with the two ledgers all_nodes and   *)
(* derived_types.                                                          *)
(*                                                                         *)
(* A Python string is a sequence of symbols (a symbol is a character or an *)
(* unbroken run of characters): s + t is s \o t, s[1:] is Tail(s), and     *)
(* re.match of a literal pattern is the prefix test.  A Python object is   *)
(* its index in heap, so "a is b" is equality of indices.  Iterating a     *)
(* Python set takes its elements in any order.                             *)
(***************************************************************************)
EXTENDS Naturals, Sequences, FiniteSets, TLC

VARIABLES schema, heap, all_nodes, derived_types, stack, status, keylog, wools,
          result, classes, calls

vars == <<schema, heap, all_nodes, derived_types, stack, status, keylog, wools,
          result, classes, calls>>

\* The state of one wrap_module call.
wrapVars == <<schema, heap, all_nodes, derived_types, stack, status, keylog,
              result, classes, calls>>

\* The recursion limit of the interpreter, in constructor frames.
MaxDepth == 9

----------------------------------------------------------------------------
(* Strings *)

Slash == <<"/">>

IsPrefix(p, s) == Len(p) <= Len(s) /\ SubSeq(s, 1, Len(p)) = p

\* A match of the whole string.
ReFullMatch(pattern, s) == pattern = s

\* re.match(pattern, string) for a literal pattern: anchored at the start only.
ReMatch(pattern, s) == IsPrefix(pattern, s)

S_m == <<"m">>
S_n == <<"n">>
S_string == <<"string">>
S_uint32 == <<"u", "int", "32">>
S_leafref == <<"leaf", "ref">>
S_enumeration == <<"enum", "eration">>
S_union == <<"union">>

TYPE_PATTERNS ==
    { <<"binary">>, <<"bits">>, <<"boolean">>, <<"decimal", "64">>,
      <<"empty">>, S_enumeration, <<"identity", "ref">>,
      <<"instance-identifier">>, <<"int", "8">>, <<"int", "16">>,
      <<"int", "32">>, <<"int", "64">>, S_leafref, S_string,
      <<"u", "int", "8">>, <<"u", "int", "16">>, S_uint32,
      <<"u", "int", "64">>, S_union }

----------------------------------------------------------------------------
(* OrderedDict: a sequence of <<key, value>> pairs without repeated keys *)

OdKeys(od) == { od[i][1] : i \in DOMAIN od }

OdHas(od, k) == \E i \in DOMAIN od : od[i][1] = k

OdGet(od, k) == od[CHOOSE i \in DOMAIN od : od[i][1] = k][2]

\* od[k] = v: an existing key keeps its position, a new key goes last.
OdSet(od, k, v) ==
    IF OdHas(od, k)
    THEN [i \in DOMAIN od |-> IF od[i][1] = k THEN <<k, v>> ELSE od[i]]
    ELSE Append(od, <<k, v>>)

----------------------------------------------------------------------------
(* The parsed schema: the statement view handed over by the parser *)

NoStmt == "none"

Groupings == {"G1", "G2"}

Augments == {"A1", "A2"}

TypedOwners == {"L1", "L2", "T1", "T2"}

UsesStmt(owner, g) ==
    CASE owner = "C1" /\ g = "G1" -> "uC1G1"
      [] owner = "C1" /\ g = "G2" -> "uC1G2"
      [] owner = "C2" /\ g = "G1" -> "uC2G1"
      [] owner = "C2" /\ g = "G2" -> "uC2G2"
      [] owner = "C3" /\ g = "G1" -> "uC3G1"
      [] owner = "C3" /\ g = "G2" -> "uC3G2"
      [] owner = "G1" /\ g = "G1" -> "uG1G1"
      [] owner = "G1" /\ g = "G2" -> "uG1G2"
      [] owner = "G2" /\ g = "G1" -> "uG2G1"
      [] owner = "G2" /\ g = "G2" -> "uG2G2"
      [] owner = "A1" /\ g = "G1" -> "uA1G1"
      [] owner = "A1" /\ g = "G2" -> "uA1G2"
      [] owner = "A2" /\ g = "G1" -> "uA2G1"
      [] owner = "A2" /\ g = "G2" -> "uA2G2"

UsesOwners == {"C1", "C2", "C3", "G1", "G2", "A1", "A2"}

UsesStmts == { UsesStmt(o, g) : o \in UsesOwners, g \in Groupings }

UsesOwner(u) == CHOOSE o \in UsesOwners : \E g \in Groupings : UsesStmt(o, g) = u

UsesTarget(u) == CHOOSE g \in Groupings : \E o \in UsesOwners : UsesStmt(o, g) = u

TypeStmtOf(owner) ==
    CASE owner = "L1" -> "tyL1"
      [] owner = "L2" -> "tyL2"
      [] owner = "T1" -> "tyT1"
      [] owner = "T2" -> "tyT2"
      [] owner = "X1" -> "tyX1"
      [] owner = "AX1" -> "tyAX1"
      [] owner = "AX2" -> "tyAX2"
      [] owner = "LD1" -> "tyLD1"
      [] owner = "LD2" -> "tyLD2"
      [] owner = "LP1" -> "tyLP1"
      [] owner = "LP2" -> "tyLP2"
      [] owner = "TD1" -> "tyTD1"
      [] owner = "TD2" -> "tyTD2"

PlainLeaves == {"X1", "AX1", "AX2"}

\* The typed statements of the module with typedefs in two scopes:
\* containers d1 and d2 each define a typedef t (TD1, TD2) and hold a leaf
\* of type t (LD1, LD2); leaf LP1 in d1 names the module's typedef as m:t1,
\* leaf LP2 in d2 names it as t1.
ScopedTypedOwners == {"LD1", "LD2", "LP1", "LP2", "TD1", "TD2"}

TypeStmts ==
    { TypeStmtOf(o) : o \in TypedOwners \cup PlainLeaves \cup ScopedTypedOwners }

TypeOwner(t) ==
    CHOOSE o \in TypedOwners \cup PlainLeaves \cup ScopedTypedOwners :
        TypeStmtOf(o) = t

\* The member type statements of a union type statement, in source order.
MemberStmts(t) ==
    CASE t = "tyL1" -> <<"tyL1a", "tyL1b">>
      [] t = "tyT1" -> <<"tyT1a", "tyT1b">>
      [] OTHER -> <<>>

MemberTypeStmts == {"tyL1a", "tyL1b", "tyT1a", "tyT1b"}

MemberOf(mt) == CHOOSE t \in {"tyL1", "tyT1"} :
                    \E i \in DOMAIN MemberStmts(t) : MemberStmts(t)[i] = mt

MemberIndex(mt) == CHOOSE i \in DOMAIN MemberStmts(MemberOf(mt)) :
                       MemberStmts(MemberOf(mt))[i] = mt

EnumStmts(t) ==
    CASE t = "tyL1" -> <<"eL1a", "eL1b">>
      [] t = "tyT1" -> <<"eT1a">>
      [] OTHER -> <<>>

\* What a "type" statement of the schema says: its argument and, for a
\* union, its members' arguments; for a leafref, whether the parser found
\* the target.
TypeChoice(c) ==
    CASE c = "string" -> [arg |-> S_string, members |-> <<>>, target |-> NoStmt]
      [] c = "uint32" -> [arg |-> S_uint32, members |-> <<>>, target |-> NoStmt]
      [] c = "t1" -> [arg |-> <<"t1">>, members |-> <<>>, target |-> NoStmt]
      [] c = "t2" -> [arg |-> <<"t2">>, members |-> <<>>, target |-> NoStmt]
      [] c = "zz" -> [arg |-> <<"zz">>, members |-> <<>>, target |-> NoStmt]
      [] c = "t" -> [arg |-> <<"t">>, members |-> <<>>, target |-> NoStmt]
      [] c = "m:t1" ->
             [arg |-> <<"m:", "t1">>, members |-> <<>>, target |-> NoStmt]
      [] c = "leafref-dangling" ->
             [arg |-> S_leafref, members |-> <<>>, target |-> NoStmt]
      [] c = "leafref-l2" ->
             [arg |-> S_leafref, members |-> <<>>, target |-> "L2"]
      [] c = "enumeration" ->
             [arg |-> S_enumeration, members |-> <<>>, target |-> NoStmt]
      [] c = "union-t1-t2" ->
             [arg |-> S_union, members |-> << <<"t1">>, <<"t2">> >>,
              target |-> NoStmt]
      [] c = "union-string-t2" ->
             [arg |-> S_union, members |-> << S_string, <<"t2">> >>,
              target |-> NoStmt]
      [] c = "union-t2-string" ->
             [arg |-> S_union, members |-> << <<"t2">>, S_string >>,
              target |-> NoStmt]

TypeOf(owner) ==
    CASE owner \in TypedOwners -> TypeChoice(schema.typ[owner])
      [] owner \in {"LD1", "LD2"} -> TypeChoice("t")
      [] owner = "LP1" -> TypeChoice("m:t1")
      [] owner = "LP2" -> TypeChoice("t1")
      [] owner = "TD2" -> TypeChoice("uint32")
      [] OTHER -> TypeChoice("string")

TypedefNamed(name) ==
    CASE name = <<"t1">> -> "T1"
      [] name = <<"t2">> -> "T2"
      [] OTHER -> NoStmt

\* The groupings the schema defines: G1 and G2 at the top of the module,
\* G3 (also named g1) inside container c1, and G4 (named g1 as well) inside
\* C3, the container that c2 holds and that is called c1 too.
GroupingStmts == Groupings \cup {"G3", "G4"}

GroupingName(g) ==
    CASE g = "G1" -> <<"g1">>
      [] g = "G2" -> <<"g2">>
      [] g = "G3" -> <<"g1">>
      [] g = "G4" -> <<"g1">>

Keyword(s) ==
    CASE s \in {"M", "N"} -> "module"
      [] s \in {"C1", "C2", "C3", "D1", "D2"} -> "container"
      [] s = "Y2" -> "anyxml"
      [] s \in GroupingStmts -> "grouping"
      [] s \in Augments -> "augment"
      [] s \in UsesStmts -> "uses"
      [] s \in {"L1", "L2", "LD1", "LD2", "LP1", "LP2"} \cup PlainLeaves -> "leaf"
      [] s \in {"T1", "T2", "TD1", "TD2"} -> "typedef"
      [] s \in TypeStmts \cup MemberTypeStmts -> "type"
      [] s \in {"eL1a", "eL1b", "eT1a"} -> "enum"
      [] s = "pL1" -> "path"
      [] s \in {"cfC1", "cfC2"} -> "config"
      [] s = "rL1" -> "require-instance"

Arg(s) ==
    CASE s = "M" -> S_m
      [] s = "N" -> S_n
      [] s = "C1" -> <<"c1">>
      [] s = "C2" -> <<"c2">>
      [] s = "C3" -> <<"c1">>
      [] s = "D1" -> <<"d1">>
      [] s = "D2" -> <<"d2">>
      [] s = "LD1" -> <<"ld1">>
      [] s = "LD2" -> <<"ld2">>
      [] s = "LP1" -> <<"lp1">>
      [] s = "LP2" -> <<"lp2">>
      [] s \in {"TD1", "TD2"} -> <<"t">>
      [] s = "Y2" -> <<"y">>
      [] s \in GroupingStmts -> GroupingName(s)
      [] s \in Augments ->
             (IF schema.aug[s].mod = "M" THEN Slash ELSE Slash \o <<"m:">>)
             \o (IF schema.aug[s].at = "C1" THEN <<"c1">> ELSE <<"c2">>)
      [] s \in UsesStmts ->
             IF UsesOwner(s) \in Augments /\ schema.aug[UsesOwner(s)].mod # "M"
             THEN <<"m:">> \o GroupingName(UsesTarget(s))
             ELSE GroupingName(UsesTarget(s))
      [] s = "L1" -> <<"l1">>
      [] s = "L2" -> <<"l2">>
      [] s = "X1" -> <<"x">>
      [] s = "AX1" -> <<"ax1">>
      [] s = "AX2" -> <<"g2">>
      [] s = "T1" -> <<"t1">>
      [] s = "T2" -> <<"t2">>
      [] s \in TypeStmts -> TypeOf(TypeOwner(s)).arg
      [] s \in MemberTypeStmts ->
             TypeOf(TypeOwner(MemberOf(s))).members[MemberIndex(s)]
      [] s = "eL1a" -> <<"up">>
      [] s = "eL1b" -> <<"down">>
      [] s = "eT1a" -> <<"up">>
      [] s = "pL1" -> <<"..", "/", "l2">>
      [] s = "cfC1" -> <<"true">>
      [] s = "cfC2" -> <<"false">>
      [] s = "rL1" -> <<"false">>

\* statement.parent
ParentStmt(s) ==
    CASE s \in {"M", "N"} -> NoStmt
      [] s \in {"C1", "C2", "G1", "G2", "L1", "L2", "T1", "T2", "D1", "D2"} -> "M"
      [] s \in {"LD1", "LP1", "TD1"} -> "D1"
      [] s \in {"LD2", "LP2", "TD2"} -> "D2"
      [] s \in Augments -> schema.aug[s].mod
      [] s \in UsesStmts -> UsesOwner(s)
      [] s \in {"X1", "G3"} -> "C1"
      [] s \in {"Y2", "C3"} -> "C2"
      [] s = "G4" -> "C3"
      [] s = "cfC1" -> "C1"
      [] s = "cfC2" -> "C2"
      [] s = "AX1" -> "A1"
      [] s = "AX2" -> "A2"
      [] s \in TypeStmts -> TypeOwner(s)
      [] s \in MemberTypeStmts -> MemberOf(s)
      [] s \in {"eL1a", "eL1b", "pL1", "rL1"} -> "tyL1"
      [] s = "eT1a" -> "tyT1"

\* statement.i_children: the effective children, augment-contributed ones
\* included.  Absent on statements that hold no data nodes.
IChildren(s) ==
    CASE s = "M" -> IF schema.kind = "grouping" THEN {"C1", "C2"}
                    ELSE IF schema.kind = "scoped" THEN {"D1", "D2"}
                    ELSE {"L1", "L2"}
      [] s = "D1" -> {"LD1", "LP1"}
      [] s = "D2" -> {"LD2", "LP2"}
      [] s = "C1" -> {"X1"}
                     \cup (IF schema.aug["A1"].on THEN {"AX1"} ELSE {})
                     \cup (IF schema.aug["A2"].on /\ schema.aug["A2"].at = "C1"
                           THEN {"AX2"} ELSE {})
      [] s = "C2" -> {"Y2"}
                     \cup (IF schema.twin THEN {"C3"} ELSE {})
                     \cup (IF schema.aug["A2"].on /\ schema.aug["A2"].at = "C2"
                           THEN {"AX2"} ELSE {})
      [] OTHER -> {}

\* statement.i_children as the list it is, in the parser's order: the
\* literal children first, then the augment-contributed ones.
IChildrenSeq(s) ==
    CASE s = "M" -> IF schema.kind = "grouping" THEN <<"C1", "C2">>
                    ELSE IF schema.kind = "scoped" THEN <<"D1", "D2">>
                    ELSE <<"L1", "L2">>
      [] s = "D1" -> <<"LD1", "LP1">>
      [] s = "D2" -> <<"LD2", "LP2">>
      [] s = "C1" -> <<"X1">>
                     \o (IF schema.aug["A1"].on THEN <<"AX1">> ELSE <<>>)
                     \o (IF schema.aug["A2"].on /\ schema.aug["A2"].at = "C1"
                         THEN <<"AX2">> ELSE <<>>)
      [] s = "C2" -> <<"Y2">>
                     \o (IF schema.twin THEN <<"C3">> ELSE <<>>)
                     \o (IF schema.aug["A2"].on /\ schema.aug["A2"].at = "C2"
                         THEN <<"AX2">> ELSE <<>>)
      [] OTHER -> <<>>

\* statement.substmts: the literal substatements, in source order.
Substmts(s) ==
    CASE s = "C3" -> <<"uC3G1">>
      [] s \in {"C1", "C2", "G1", "G2"} ->
             (IF s = "C1" THEN <<"cfC1", "X1">>
              ELSE IF s = "C2" THEN <<"cfC2", "Y2">> ELSE <<>>)
             \o (IF "G1" \in schema.usesOf[s] THEN <<UsesStmt(s, "G1")>> ELSE <<>>)
             \o (IF "G2" \in schema.usesOf[s] THEN <<UsesStmt(s, "G2")>> ELSE <<>>)
      [] s \in Augments ->
             (IF s = "A1" THEN <<"AX1">> ELSE <<"AX2">>)
             \o (IF "G1" \in schema.aug[s].uses THEN <<UsesStmt(s, "G1")>> ELSE <<>>)
             \o (IF "G2" \in schema.aug[s].uses THEN <<UsesStmt(s, "G2")>> ELSE <<>>)
      [] s \in {"L1", "L2", "T1", "T2"} \cup PlainLeaves \cup ScopedTypedOwners ->
             <<TypeStmtOf(s)>>
      [] s \in TypeStmts ->
             IF Arg(s) = S_union
             THEN SubSeq(MemberStmts(s), 1, Len(TypeOf(TypeOwner(s)).members))
             ELSE IF Arg(s) = S_enumeration THEN EnumStmts(s)
             ELSE IF Arg(s) = S_leafref
             THEN IF schema.pathFirst THEN <<"pL1">> ELSE <<"rL1", "pL1">>
             ELSE <<>>
      [] OTHER -> <<>>

\* statement.search(keyword)
Search(s, kw) == SelectSeq(Substmts(s), LAMBDA x : Keyword(x) = kw)

\* statement.search_one(keyword)
SearchOne(s, kw) == IF Search(s, kw) = <<>> THEN NoStmt ELSE Head(Search(s, kw))

Range(seq) == { seq[i] : i \in DOMAIN seq }

\* uses.i_grouping: the definition the name resolves to from where the uses
\* stands; inside c1 the name g1 resolves to c1's own grouping when c1
\* defines one.
IGrouping(u) ==
    IF u = "uC1G1" /\ schema.scoped THEN "G3"
    ELSE IF u = "uC3G1" THEN "G4"
    ELSE UsesTarget(u)

\* child.i_augment, NoStmt when the child has no such attribute.
IAugment(s) ==
    CASE s = "AX1" -> "A1"
      [] s = "AX2" -> "A2"
      [] OTHER -> NoStmt

\* type.i_typedef, NoStmt when the name resolves to no typedef.
ITypedef(t) ==
    CASE t = "tyLD1" -> "TD1"
      [] t = "tyLD2" -> "TD2"
      [] t = "tyLP1" -> "T1"
      [] OTHER -> TypedefNamed(Arg(t))

\* statement.i_typedefs: the typedefs defined directly in the statement, by
\* name.  The modules about typed nodes define t1 and t2.
ITypedefs(s) ==
    IF s = "M" /\ schema.kind = "typed"
    THEN [n \in {<<"t1">>, <<"t2">>} |-> TypedefNamed(n)]
    ELSE <<>>

\* type.i_type_spec.i_target_node, NoStmt when the attribute is absent.
ITargetNode(t) ==
    IF t \in TypeStmts THEN TypeOf(TypeOwner(t)).target ELSE NoStmt

----------------------------------------------------------------------------
(* The backend (Wool) *)

\* The keywords with a registered wrapper class (class ...(..., yang=...)).
YangWrappers ==
    {"module", "container", "grouping", "list", "choice", "case", "rpc",
     "input", "output", "leaf", "enum", "enumeration", "union", "typedef",
     "leaf-list"}

\* A lookup that hands out a wrapper for every keyword.
WoolGetAny(name) == name

\* Wool.get(name): the wrapper class, here its keyword, or "none" for None.
WoolGet(name) == IF name \in YangWrappers THEN name ELSE "none"

GrouponderClasses ==
    {"module", "container", "grouping", "list", "choice", "case", "rpc",
     "input", "output"}

\* The for ... else over WOOL._data_type_patterns.items(): the name of the
\* first rule whose pattern matches, else TYPE_PATTERNS[arg], the name itself.
BuiltinDataType(arg) ==
    LET rules == schema.patterns
        hits == { i \in DOMAIN rules : ReMatch(rules[i][1], arg) }
    IN  IF hits = {} THEN arg
        ELSE rules[CHOOSE i \in hits : \A j \in hits : i <= j][2]

----------------------------------------------------------------------------
(* Wrapped nodes *)

None == 0

\* str.lower(): the names and arguments of the schemas wrapped here are in
\* lower case but for "True" and "False".
Lower(str) ==
    [i \in DOMAIN str |-> CASE str[i] = "True" -> "true"
                            [] str[i] = "False" -> "false"
                            [] OTHER -> str[i]]

\* Lines 294-301: whether the loop over the substatements assigns config,
\* and the value it assigns.
HasConfig(stmt) == Search(stmt, "config") # <<>>

ConfigOf(stmt) == Lower(Arg(stmt)) = <<"true">>

\* What a call of all_children() gave: nothing before the first call.
NoResult == [called |-> FALSE, of |-> None, value |-> <<>>]

\* The attributes of a freshly constructed wrapper.  A flag has_x says that
\* attribute x has been assigned; is_augmented is only ever assigned True.
NewObj(stmt, cls, parent) ==
    [stmt |-> stmt, cls |-> cls, parent |-> parent,
     has_config |-> HasConfig(stmt), config |-> ConfigOf(stmt),
     children |-> <<>>, uses |-> <<>>,
     has_is_augmented |-> FALSE,
     has_data_type |-> FALSE, data_type |-> <<>>,
     has_is_build_in_type |-> FALSE, is_build_in_type |-> FALSE,
     enumeration |-> None, union |-> None, reference |-> None,
     has_path |-> FALSE, path |-> <<>>,
     enums |-> <<>>, types |-> <<>>]

\* top() that goes up one level only.
TopOfParent(h, w) == IF h[w].parent # None THEN h[w].parent ELSE w

\* NodeWrapper.top
RECURSIVE Top(_, _)
Top(h, w) == IF h[w].parent # None THEN Top(h, h[w].parent) ELSE w

\* NodeWrapper.yang_name
YangName(h, w) == Arg(h[w].stmt)

\* NodeWrapper.yang_type
YangType(h, w) == Keyword(h[w].stmt)

\* NodeWrapper.generate_key
RECURSIVE GenerateKey(_, _)
GenerateKey(h, w) ==
    IF YangType(h, w) \in {"grouping", "typedef"}
    THEN Arg(ParentStmt(h[w].stmt)) \o Slash \o YangName(h, w)
    ELSE IF h[w].parent = None THEN YangName(h, w)
    ELSE GenerateKey(h, h[w].parent) \o Slash \o YangName(h, w)

\* The kinds that are not entered into all_nodes.
TransientKinds == {"enum", "input", "output", "type"}

\* all_nodes.get(keyword, {}).get(key): the wrapper, or None.
Lookup(an, kw, key) ==
    IF \E e \in an : e.kw = kw /\ e.key = key
    THEN (CHOOSE e \in an : e.kw = kw /\ e.key = key).w
    ELSE None

\* The registration at the end of NodeWrapper.__init__: the new wrapper w
\* goes into top().all_nodes[keyword] under its key.
Register(an, h, w) ==
    IF h[w].parent = None \/ YangType(h, w) \in TransientKinds THEN an
    ELSE { e \in an : ~(e.kw = YangType(h, w) /\ e.key = GenerateKey(h, w)) }
         \cup {[kw |-> YangType(h, w), key |-> GenerateKey(h, w), w |-> w]}

\* A key made from the name of the statement that carries the uses.
UsesKeyAtSite(u) == Arg(ParentStmt(u)) \o Slash \o Arg(IGrouping(u))

\* The key line 51 computes for a literal uses statement.
UsesKey(u) == Arg(ParentStmt(IGrouping(u))) \o Slash \o Arg(IGrouping(u))

\* The key lines 73-74 compute for a uses statement of an augment body.
AugmentUsesKey(grp) == Tail(Arg(ParentStmt(grp))) \o Slash \o Arg(grp)

\* str.replace(old, new) on a string of symbols.
Replace(s, old, new) == [i \in DOMAIN s |-> IF s[i] = old THEN new ELSE s[i]]

S_is_augmented == <<"is", "_", "augmented">>

\* Grouponder.__getattr__(name), which Python calls when w has no attribute
\* of that name: the child of that name, or AttributeError.
GetAttr(h, w, name) ==
    IF name = <<"children">> THEN "AttributeError"
    ELSE IF OdHas(h[w].children, Replace(name, "_", "-")) THEN "child"
    ELSE "AttributeError"

\* The outcome of reading w.is_augmented.
ReadIsAugmented(h, w) ==
    IF h[w].has_is_augmented THEN "True" ELSE GetAttr(h, w, S_is_augmented)

----------------------------------------------------------------------------
(* The constructors, one frame of stack per constructor call in progress *)

NewFrame(w, cls, stmt, slot, key) ==
    [w |-> w,
     pc |-> IF cls \in GrouponderClasses THEN "children" ELSE "type",
     todo |-> IF cls \in GrouponderClasses THEN IChildren(stmt) ELSE {},
     inner |-> {},
     akeys |-> <<>>,
     mtodo |-> IF cls = "enumeration" THEN Search(stmt, "enum")
               ELSE IF cls = "union" THEN Search(stmt, "type")
               ELSE <<>>,
     slot |-> slot, key |-> key]

Running == status = "running" /\ stack # <<>>

Cur == stack[Len(stack)]

CurStmt == heap[Cur.w].stmt

SetCur(stk, f) == [stk EXCEPT ![Len(stk)] = f]

Raise(err, h) ==
    /\ status' = err
    /\ heap' = h
    /\ UNCHANGED <<all_nodes, derived_types, stack>>

\* cls(stmt, parent): the call of a wrapper class from a constructor whose
\* own state is already (h, stk).  NodeWrapper.__init__ runs at once; the
\* rest of the new constructor runs in the new frame.
Call(h, stk, stmt, cls, parent, slot, key) ==
    IF Len(stk) >= MaxDepth THEN Raise("RecursionError", h)
    ELSE IF stmt = NoStmt THEN Raise("AttributeError", h)
    ELSE LET w == Len(h) + 1
             h2 == Append(h, NewObj(stmt, cls, parent))
         IN  /\ heap' = h2
             /\ all_nodes' = Register(all_nodes, h2, w)
             /\ stack' = Append(stk, NewFrame(w, cls, stmt, slot, key))
             /\ UNCHANGED <<status, derived_types>>

----------------------------------------------------------------------------
(* wrap_module and Module.__init__ *)

Start ==
    /\ status = "init"
    /\ status' = "running"
    /\ all_nodes' = {}
    /\ derived_types' = <<>>
    /\ heap' = <<NewObj("M", "module", None)>>
    /\ stack' = <<NewFrame(1, "module", "M", "root", <<>>)>>
    /\ UNCHANGED <<classes, calls, result, wools, schema, keylog>>

----------------------------------------------------------------------------
(* Grouponder.__init__ *)

\* Lines 36-39 with the child given the module as its parent.
WrapChildUnderTop ==
    /\ Running /\ Cur.pc = "children"
    /\ \E child \in Cur.todo :
         /\ WoolGet(Keyword(child)) # "none"
         /\ Call(heap, SetCur(stack, [Cur EXCEPT !.todo = @ \ {child}]),
                 child, WoolGet(Keyword(child)), Top(heap, Cur.w), "children",
                 Arg(child))
    /\ UNCHANGED <<classes, calls, result, wools, schema, keylog>>

\* Lines 36-39: a child whose keyword has a wrapper is wrapped.
WrapChild ==
    /\ Running /\ Cur.pc = "children"
    /\ \E child \in Cur.todo :
         /\ WoolGet(Keyword(child)) # "none"
         /\ Call(heap, SetCur(stack, [Cur EXCEPT !.todo = @ \ {child}]),
                 child, WoolGet(Keyword(child)), Cur.w, "children", Arg(child))
    /\ UNCHANGED <<classes, calls, result, wools, schema, keylog>>

\* Lines 40-42: a child whose keyword has no wrapper is only logged.
SkipChild ==
    /\ Running /\ Cur.pc = "children"
    /\ \E child \in Cur.todo :
         /\ WoolGet(Keyword(child)) = "none"
         /\ stack' = SetCur(stack, [Cur EXCEPT !.todo = @ \ {child}])
    /\ UNCHANGED <<classes, calls, result, wools, schema, heap, all_nodes, derived_types, status, keylog>>

\* Line 46: the children are done, the literal uses statements are next.
ChildrenDone ==
    /\ Running /\ Cur.pc = "children" /\ Cur.todo = {}
    /\ stack' = SetCur(stack, [Cur EXCEPT !.pc = "uses",
                                          !.todo = Range(Search(CurStmt, "uses"))])
    /\ UNCHANGED <<classes, calls, result, wools, schema, heap, all_nodes, derived_types, status, keylog>>

\* Lines 51-54: the grouping is in the ledger and is linked.
UsesReuse ==
    /\ Running /\ Cur.pc = "uses"
    /\ \E u \in Cur.todo :
         LET group == Lookup(all_nodes, "grouping", UsesKey(u)) IN
         /\ group # None
         /\ heap' = [heap EXCEPT ![Cur.w].uses =
                         OdSet(@, YangName(heap, group), group)]
         /\ stack' = SetCur(stack, [Cur EXCEPT !.todo = @ \ {u}])
         /\ keylog' = keylog \cup
              {[site |-> Cur.w, via |-> "uses", target |-> IGrouping(u),
                key |-> UsesKey(u), found |-> group]}
    /\ UNCHANGED <<classes, calls, result, wools, schema, all_nodes, derived_types, status>>

\* Lines 55-57 with the use-site as the parent of the new grouping.
UsesFreshAtSite ==
    /\ Running /\ Cur.pc = "uses"
    /\ \E u \in Cur.todo :
         /\ Lookup(all_nodes, "grouping", UsesKey(u)) = None
         /\ Call(heap, SetCur(stack, [Cur EXCEPT !.todo = @ \ {u}]),
                 IGrouping(u), WoolGet("grouping"), Cur.w,
                 "uses", Arg(IGrouping(u)))
         /\ keylog' = keylog \cup
              {[site |-> Cur.w, via |-> "uses", target |-> IGrouping(u),
                key |-> UsesKey(u), found |-> None]}
    /\ UNCHANGED <<classes, calls, result, wools, schema>>

\* Lines 55-57: the grouping is not in the ledger and is wrapped, with the
\* module as its parent.
UsesFresh ==
    /\ Running /\ Cur.pc = "uses"
    /\ \E u \in Cur.todo :
         /\ Lookup(all_nodes, "grouping", UsesKey(u)) = None
         /\ Call(heap, SetCur(stack, [Cur EXCEPT !.todo = @ \ {u}]),
                 IGrouping(u), WoolGet("grouping"), Top(heap, Cur.w),
                 "uses", Arg(IGrouping(u)))
         /\ keylog' = keylog \cup
              {[site |-> Cur.w, via |-> "uses", target |-> IGrouping(u),
                key |-> UsesKey(u), found |-> None]}
    /\ UNCHANGED <<classes, calls, result, wools, schema>>

\* Lines 62-64: the uses are done, the augment handling is next.
UsesDone ==
    /\ Running /\ Cur.pc = "uses" /\ Cur.todo = {}
    /\ stack' = SetCur(stack, [Cur EXCEPT !.pc = "augment",
                                          !.todo = IChildren(CurStmt),
                                          !.akeys = <<>>])
    /\ UNCHANGED <<classes, calls, result, wools, schema, heap, all_nodes, derived_types, status, keylog>>

\* Line 65: a child without i_augment.
AugmentPlainChild ==
    /\ Running /\ Cur.pc = "augment"
    /\ \E child \in Cur.todo :
         /\ IAugment(child) = NoStmt
         /\ stack' = SetCur(stack, [Cur EXCEPT !.todo = @ \ {child}])
    /\ UNCHANGED <<classes, calls, result, wools, schema, heap, all_nodes, derived_types, status, keylog>>

\* Lines 66-68: an augmented child whose augment's parent has been seen.
AugmentSeenChild ==
    /\ Running /\ Cur.pc = "augment"
    /\ \E child \in Cur.todo :
         /\ IAugment(child) # NoStmt
         /\ Arg(ParentStmt(IAugment(child))) \in Range(Cur.akeys)
         /\ heap' = [heap EXCEPT ![Cur.w].has_is_augmented = TRUE]
         /\ stack' = SetCur(stack, [Cur EXCEPT !.todo = @ \ {child}])
    /\ UNCHANGED <<classes, calls, result, wools, schema, all_nodes, derived_types, status, keylog>>

\* Lines 66-72: an augmented child whose augment's parent is new: the uses
\* statements of the augment body are next.
AugmentNewChild ==
    /\ Running /\ Cur.pc = "augment"
    /\ \E child \in Cur.todo :
         /\ IAugment(child) # NoStmt
         /\ Arg(ParentStmt(IAugment(child))) \notin Range(Cur.akeys)
         /\ heap' = [heap EXCEPT ![Cur.w].has_is_augmented = TRUE]
         /\ stack' = SetCur(stack,
              [Cur EXCEPT !.todo = @ \ {child},
                          !.akeys = Append(@, Arg(ParentStmt(IAugment(child)))),
                          !.inner = Range(Search(IAugment(child), "uses")),
                          !.pc = "augment_uses"])
    /\ UNCHANGED <<classes, calls, result, wools, schema, all_nodes, derived_types, status, keylog>>

\* Lines 73-78: the key of the augment's uses is in the ledger.
AugmentUsesReuse ==
    /\ Running /\ Cur.pc = "augment_uses"
    /\ \E grp \in Cur.inner :
         LET group == Lookup(all_nodes, "grouping", AugmentUsesKey(grp)) IN
         /\ group # None
         /\ heap' = [heap EXCEPT ![Cur.w].uses =
                         OdSet(@, YangName(heap, group), group)]
         /\ stack' = SetCur(stack, [Cur EXCEPT !.inner = @ \ {grp}])
         /\ keylog' = keylog \cup
              {[site |-> Cur.w, via |-> "augment", target |-> IGrouping(grp),
                key |-> AugmentUsesKey(grp), found |-> group]}
    /\ UNCHANGED <<classes, calls, result, wools, schema, all_nodes, derived_types, status>>

\* Lines 79-82: the key is not in the ledger: the uses statement itself is
\* handed to the grouping wrapper.
AugmentUsesFresh ==
    /\ Running /\ Cur.pc = "augment_uses"
    /\ \E grp \in Cur.inner :
         /\ Lookup(all_nodes, "grouping", AugmentUsesKey(grp)) = None
         /\ Call(heap, SetCur(stack, [Cur EXCEPT !.inner = @ \ {grp}]),
                 grp, WoolGet("grouping"), Top(heap, Cur.w), "uses", Arg(grp))
         /\ keylog' = keylog \cup
              {[site |-> Cur.w, via |-> "augment", target |-> IGrouping(grp),
                key |-> AugmentUsesKey(grp), found |-> None]}
    /\ UNCHANGED <<classes, calls, result, wools, schema>>

\* Line 72: the uses statements of this augment are done.
AugmentUsesDone ==
    /\ Running /\ Cur.pc = "augment_uses" /\ Cur.inner = {}
    /\ stack' = SetCur(stack, [Cur EXCEPT !.pc = "augment"])
    /\ UNCHANGED <<classes, calls, result, wools, schema, heap, all_nodes, derived_types, status, keylog>>

\* Line 64: every child has been looked at.
AugmentDone ==
    /\ Running /\ Cur.pc = "augment" /\ Cur.todo = {}
    /\ stack' = SetCur(stack, [Cur EXCEPT !.pc = "end"])
    /\ UNCHANGED <<classes, calls, result, wools, schema, heap, all_nodes, derived_types, status, keylog>>

----------------------------------------------------------------------------
(* Typonder.__init__ *)

TypeStmt == SearchOne(CurStmt, "type")

\* Where a constructor goes on after Typonder.__init__: Enumeration and
\* Union have loops of their own, the other classes return.
AfterTyponder ==
    IF heap[Cur.w].cls = "enumeration" THEN "enums"
    ELSE IF heap[Cur.w].cls = "union" THEN "members"
    ELSE "end"

\* Lines 55-56: no type substatement.
TypeAbsent ==
    /\ Running /\ Cur.pc = "type"
    /\ TypeStmt = NoStmt
    /\ stack' = SetCur(stack, [Cur EXCEPT !.pc = AfterTyponder])
    /\ UNCHANGED <<classes, calls, result, wools, schema, heap, all_nodes, derived_types, status, keylog>>

\* Lines 58-70: a builtin type name.
TypeBuiltin ==
    /\ Running /\ Cur.pc = "type"
    /\ TypeStmt # NoStmt
    /\ Arg(TypeStmt) \in TYPE_PATTERNS
    /\ heap' = [heap EXCEPT ![Cur.w].has_data_type = TRUE,
                            ![Cur.w].data_type = BuiltinDataType(Arg(TypeStmt)),
                            ![Cur.w].has_is_build_in_type = TRUE,
                            ![Cur.w].is_build_in_type = TRUE]
    /\ stack' = SetCur(stack, [Cur EXCEPT !.pc = "facet"])
    /\ UNCHANGED <<classes, calls, result, wools, schema, all_nodes, derived_types, status, keylog>>

\* Lines 73-75, 79: a typedef name that derived_types already holds.
TypeDerivedReuse ==
    /\ Running /\ Cur.pc = "type"
    /\ TypeStmt # NoStmt
    /\ Arg(TypeStmt) \notin TYPE_PATTERNS
    /\ OdHas(derived_types, Arg(TypeStmt))
    /\ heap' = [heap EXCEPT ![Cur.w].has_data_type = TRUE,
                            ![Cur.w].data_type = Arg(TypeStmt),
                            ![Cur.w].has_is_build_in_type = TRUE,
                            ![Cur.w].is_build_in_type = FALSE]
    /\ stack' = SetCur(stack, [Cur EXCEPT !.pc = "facet"])
    /\ UNCHANGED <<classes, calls, result, wools, schema, all_nodes, derived_types, status, keylog>>

\* Lines 73-78 with the wrapped typedef kept on the node instead of in
\* derived_types.
TypeDerivedWrapUnstored ==
    /\ Running /\ Cur.pc = "type"
    /\ TypeStmt # NoStmt
    /\ Arg(TypeStmt) \notin TYPE_PATTERNS
    /\ ~OdHas(derived_types, Arg(TypeStmt))
    /\ Call([heap EXCEPT ![Cur.w].has_data_type = TRUE,
                         ![Cur.w].data_type = Arg(TypeStmt)],
            SetCur(stack, [Cur EXCEPT !.pc = "facet"]),
            ITypedef(TypeStmt), WoolGet("typedef"), Top(heap, Cur.w),
            "reference", Arg(TypeStmt))
    /\ UNCHANGED <<classes, calls, result, wools, schema, keylog>>

\* Lines 73-78: a name derived_types does not hold: i_typedef is wrapped,
\* with the module as its parent; the entry is stored when the call is back.
TypeDerivedWrap ==
    /\ Running /\ Cur.pc = "type"
    /\ TypeStmt # NoStmt
    /\ Arg(TypeStmt) \notin TYPE_PATTERNS
    /\ ~OdHas(derived_types, Arg(TypeStmt))
    /\ Call([heap EXCEPT ![Cur.w].has_data_type = TRUE,
                         ![Cur.w].data_type = Arg(TypeStmt)],
            SetCur(stack, [Cur EXCEPT !.pc = "facet"]),
            ITypedef(TypeStmt), WoolGet("typedef"), Top(heap, Cur.w),
            "derived_types", Arg(TypeStmt))
    /\ UNCHANGED <<classes, calls, result, wools, schema, keylog>>

\* Lines 82-87: the data type is none of enumeration, union, leafref.
FacetNone ==
    /\ Running /\ Cur.pc = "facet"
    /\ heap[Cur.w].data_type \notin {S_enumeration, S_union, S_leafref}
    /\ stack' = SetCur(stack, [Cur EXCEPT !.pc = AfterTyponder])
    /\ UNCHANGED <<classes, calls, result, wools, schema, heap, all_nodes, derived_types, status, keylog>>

\* The enumeration branch without the wrapping of the type statement.
FacetEnumerationSkipped ==
    /\ Running /\ Cur.pc = "facet"
    /\ heap[Cur.w].data_type = S_enumeration
    /\ stack' = SetCur(stack, [Cur EXCEPT !.pc = AfterTyponder])
    /\ UNCHANGED <<classes, calls, result, wools, schema, heap, all_nodes, derived_types, status, keylog>>

\* Lines 82-83
FacetEnumeration ==
    /\ Running /\ Cur.pc = "facet"
    /\ heap[Cur.w].data_type = S_enumeration
    /\ Call(heap, SetCur(stack, [Cur EXCEPT !.pc = AfterTyponder]),
            TypeStmt, "enumeration", Cur.w, "enumeration", <<>>)
    /\ UNCHANGED <<classes, calls, result, wools, schema, keylog>>

\* Lines 85-86
FacetUnion ==
    /\ Running /\ Cur.pc = "facet"
    /\ heap[Cur.w].data_type = S_union
    /\ Call(heap, SetCur(stack, [Cur EXCEPT !.pc = AfterTyponder]),
            TypeStmt, "union", Cur.w, "union", <<>>)
    /\ UNCHANGED <<classes, calls, result, wools, schema, keylog>>

\* Lines 87-90: a leafref whose target the parser found: the target leaf
\* is wrapped under this node.
FacetLeafrefTarget ==
    /\ Running /\ Cur.pc = "facet"
    /\ heap[Cur.w].data_type = S_leafref
    /\ ITargetNode(TypeStmt) # NoStmt
    /\ Call(heap, SetCur(stack, [Cur EXCEPT !.pc = "path"]),
            ITargetNode(TypeStmt), WoolGet("leaf"), Cur.w, "reference", <<>>)
    /\ UNCHANGED <<classes, calls, result, wools, schema, keylog>>

\* Lines 87-88: a leafref without i_target_node.
FacetLeafrefDangling ==
    /\ Running /\ Cur.pc = "facet"
    /\ heap[Cur.w].data_type = S_leafref
    /\ ITargetNode(TypeStmt) = NoStmt
    /\ stack' = SetCur(stack, [Cur EXCEPT !.pc = "path"])
    /\ UNCHANGED <<classes, calls, result, wools, schema, heap, all_nodes, derived_types, status, keylog>>

\* Lines 91-93: path is the argument of the first substatement of the first
\* type substatement.
SetPath ==
    /\ Running /\ Cur.pc = "path"
    /\ IF Substmts(TypeStmt) = <<>>
       THEN Raise("IndexError", heap)
       ELSE /\ heap' = [heap EXCEPT ![Cur.w].has_path = TRUE,
                                    ![Cur.w].path = Arg(Head(Substmts(TypeStmt)))]
            /\ stack' = SetCur(stack, [Cur EXCEPT !.pc = AfterTyponder])
            /\ UNCHANGED <<all_nodes, derived_types, status>>
    /\ UNCHANGED <<classes, calls, result, wools, schema, keylog>>

----------------------------------------------------------------------------
(* Enumeration.__init__ and Union.__init__ *)

EnumWrap ==
    /\ Running /\ Cur.pc = "enums" /\ Cur.mtodo # <<>>
    /\ Call(heap, SetCur(stack, [Cur EXCEPT !.mtodo = Tail(@)]),
            Head(Cur.mtodo), WoolGet("enum"), Cur.w, "enums",
            Arg(Head(Cur.mtodo)))
    /\ UNCHANGED <<classes, calls, result, wools, schema, keylog>>

\* Lines 166-175: a builtin member.
MemberBuiltin ==
    /\ Running /\ Cur.pc = "members" /\ Cur.mtodo # <<>>
    /\ Arg(Head(Cur.mtodo)) \in TYPE_PATTERNS
    /\ LET name == BuiltinDataType(Arg(Head(Cur.mtodo))) IN
         heap' = [heap EXCEPT ![Cur.w].types =
                      OdSet(@, name, [obj |-> None, str |-> name])]
    /\ stack' = SetCur(stack, [Cur EXCEPT !.mtodo = Tail(@)])
    /\ UNCHANGED <<classes, calls, result, wools, schema, all_nodes, derived_types, status, keylog>>

\* Lines 176-179: a member that derived_types holds.
MemberReuse ==
    /\ Running /\ Cur.pc = "members" /\ Cur.mtodo # <<>>
    /\ Arg(Head(Cur.mtodo)) \notin TYPE_PATTERNS
    /\ OdHas(derived_types, Arg(Head(Cur.mtodo)))
    /\ heap' = [heap EXCEPT ![Cur.w].types =
                    OdSet(@, Arg(Head(Cur.mtodo)),
                          [obj |-> OdGet(derived_types, Arg(Head(Cur.mtodo))),
                           str |-> <<>>])]
    /\ stack' = SetCur(stack, [Cur EXCEPT !.mtodo = Tail(@)])
    /\ UNCHANGED <<classes, calls, result, wools, schema, all_nodes, derived_types, status, keylog>>

\* Lines 180-182: any other member: the member type statement itself is
\* handed to the typedef wrapper.
MemberWrap ==
    /\ Running /\ Cur.pc = "members" /\ Cur.mtodo # <<>>
    /\ Arg(Head(Cur.mtodo)) \notin TYPE_PATTERNS
    /\ ~OdHas(derived_types, Arg(Head(Cur.mtodo)))
    /\ Call(heap, SetCur(stack, [Cur EXCEPT !.mtodo = Tail(@)]),
            Head(Cur.mtodo), WoolGet("typedef"), Top(heap, Cur.w), "types",
            Arg(Head(Cur.mtodo)))
    /\ UNCHANGED <<classes, calls, result, wools, schema, keylog>>

LoopDone ==
    /\ Running /\ Cur.pc \in {"enums", "members"} /\ Cur.mtodo = <<>>
    /\ stack' = SetCur(stack, [Cur EXCEPT !.pc = "end"])
    /\ UNCHANGED <<classes, calls, result, wools, schema, heap, all_nodes, derived_types, status, keylog>>

----------------------------------------------------------------------------
(* The return of a constructor: the caller's assignment of the new wrapper *)

Store(h, caller, f) ==
    CASE f.slot = "children" ->
             [h EXCEPT ![caller].children = OdSet(@, f.key, f.w)]
      [] f.slot = "uses" -> [h EXCEPT ![caller].uses = OdSet(@, f.key, f.w)]
      [] f.slot = "derived_types" ->
             [h EXCEPT ![caller].has_is_build_in_type = TRUE,
                       ![caller].is_build_in_type = FALSE]
      [] f.slot = "enumeration" -> [h EXCEPT ![caller].enumeration = f.w]
      [] f.slot = "union" -> [h EXCEPT ![caller].union = f.w]
      [] f.slot = "reference" -> [h EXCEPT ![caller].reference = f.w]
      [] f.slot = "enums" -> [h EXCEPT ![caller].enums = OdSet(@, f.key, f.w)]
      [] f.slot = "types" ->
             [h EXCEPT ![caller].types =
                  OdSet(@, f.key, [obj |-> f.w, str |-> <<>>])]

Return ==
    /\ Running /\ Cur.pc = "end"
    /\ IF Len(stack) = 1
       THEN /\ status' = "done"
            /\ stack' = <<>>
            /\ UNCHANGED <<heap, derived_types>>
       ELSE LET caller == stack[Len(stack) - 1].w IN
            /\ heap' = Store(heap, caller, Cur)
            /\ derived_types' =
                 IF Cur.slot = "derived_types"
                 THEN OdSet(derived_types, Cur.key, Cur.w)
                 ELSE derived_types
            /\ stack' = SubSeq(stack, 1, Len(stack) - 1)
            /\ UNCHANGED status
    /\ UNCHANGED <<classes, calls, result, wools, schema, all_nodes, keylog>>

----------------------------------------------------------------------------
(* Grouponder.all_children *)

\* OrderedDict.update(other): the entries of other are assigned in order.
RECURSIVE OdUpdate(_, _)
OdUpdate(od, other) ==
    IF other = <<>> THEN od
    ELSE OdUpdate(OdSet(od, Head(other)[1], Head(other)[2]), Tail(other))

\* all_children() with the two mappings taken in the other order.
UsesThenChildren(h, w) == OdUpdate(h[w].uses, h[w].children)

\* Lines 128-130: a copy of children, updated with uses.
AllChildren(h, w) == OdUpdate(h[w].children, h[w].uses)

\* A call of all_children() on a node of the tree wrap_module returned.
CallAllChildren ==
    /\ status = "done"
    /\ \E w \in DOMAIN heap :
         /\ heap[w].cls \in GrouponderClasses
         /\ result' = [called |-> TRUE, of |-> w, value |-> AllChildren(heap, w)]
    /\ UNCHANGED <<classes, calls, wools, schema, heap, all_nodes, derived_types,
                   stack, status, keylog>>

----------------------------------------------------------------------------
(* The schemas wrapped *)

NoUses == [o \in {"C1", "C2", "G1", "G2"} |-> {}]

AugOff == [on |-> FALSE, uses |-> {}, mod |-> "M", at |-> "C1"]

NoAug == [a \in Augments |-> AugOff]

PlainTyp == [o \in TypedOwners |-> "string"]

\* Schemas about groupings, uses and augments.  G1 and G2 may use each other
\* or themselves; A1 augments c1, A2 augments c1 or c2, from this module or
\* (c1 only) from module n.
GroupingUses ==
    { x \in [{"C1", "C2", "G1", "G2"} -> SUBSET Groupings] :
        /\ x["C1"] \in {{}, {"G1"}, {"G2"}}
        /\ x["C2"] \in {{}, {"G1", "G2"}}
        /\ <<x["G1"], x["G2"]>> \in { <<{}, {}>>, <<{"G1"}, {}>>,
                                      <<{"G2"}, {"G1"}>>, <<{"G2"}, {}>> } }

GroupingAugments ==
    { x \in [Augments -> [on : BOOLEAN, uses : SUBSET Groupings,
                          mod : {"M", "N"}, at : {"C1", "C2"}]] :
        /\ x["A1"].mod = "M" /\ x["A1"].at = "C1"
        /\ x["A2"].at = "C2" => x["A2"].mod = "M"
        /\ ~x["A1"].on => x["A1"] = AugOff /\ x["A2"] = AugOff
        /\ x["A1"].uses # Groupings
        /\ ~x["A2"].on => x["A2"] = AugOff
        /\ x["A2"].on => x["A2"].uses = {"G2"} }

GroupingSchemas ==
    { [kind |-> "grouping", usesOf |-> u, aug |-> a, scoped |-> sc,
       twin |-> tw,
       typ |-> PlainTyp, pathFirst |-> TRUE, patterns |-> <<>>] :
        u \in GroupingUses, a \in GroupingAugments, sc \in BOOLEAN,
        tw \in BOOLEAN }

ScopedOk(s) ==
    /\ s.scoped => "G1" \in s.usesOf["C1"]
    /\ s.twin => /\ s.scoped /\ s.aug = NoAug
                 /\ s.usesOf = [NoUses EXCEPT !["C1"] = {"G1"}]

PatternLists ==
    { <<>>,
      << << <<"u">>, <<"number">> >>, << <<"u", "int">>, <<"int">> >> >>,
      << << <<"enum">>, <<"Enum">> >> >> }

\* Schemas about typed nodes: leaves l1, l2 and typedefs t1, t2.
TypedSchemas ==
    { [kind |-> "typed", usesOf |-> NoUses, aug |-> NoAug, scoped |-> FALSE,
       twin |-> FALSE,
       typ |-> t, pathFirst |-> pf, patterns |-> p] :
        t \in { x \in [TypedOwners ->
                         {"string", "uint32", "t1", "t2", "zz",
                          "leafref-dangling", "leafref-l2", "enumeration",
                          "union-t1-t2", "union-string-t2", "union-t2-string"}] :
                  /\ x["L2"] \in {"string", "t1", "t2"}
                  /\ x["T1"] \in {"uint32", "t2", "enumeration", "union-t2-string"}
                  /\ x["T2"] \in {"string", "t1"} },
        pf \in BOOLEAN,
        p \in PatternLists }

TypedOk(s) ==
    ~s.pathFirst => s.typ["L1"] \in {"leafref-dangling", "leafref-l2"}

\* The module with typedefs of one name in two scopes.
ScopedTypedSchemas ==
    { [kind |-> "scoped", usesOf |-> NoUses, aug |-> NoAug, scoped |-> FALSE,
       twin |-> FALSE,
       typ |-> PlainTyp, pathFirst |-> TRUE, patterns |-> <<>>] }

Schemas == { s \in GroupingSchemas : ScopedOk(s) }
           \cup { s \in TypedSchemas : TypedOk(s) }
           \cup ScopedTypedSchemas

Init ==
    /\ schema \in Schemas
    /\ heap = <<>>
    /\ all_nodes = {}
    /\ derived_types = <<>>
    /\ stack = <<>>
    /\ status = "init"
    /\ keylog = {}
    /\ wools = <<>>
    /\ result = NoResult
    /\ classes = <<>>
    /\ calls = <<>>

Next ==
    \/ Start
    \/ WrapChild \/ SkipChild \/ ChildrenDone
    \/ UsesReuse \/ UsesFresh \/ UsesDone
    \/ AugmentPlainChild \/ AugmentSeenChild \/ AugmentNewChild
    \/ AugmentUsesReuse \/ AugmentUsesFresh \/ AugmentUsesDone \/ AugmentDone
    \/ TypeAbsent \/ TypeBuiltin \/ TypeDerivedReuse \/ TypeDerivedWrap
    \/ FacetNone \/ FacetEnumeration \/ FacetUnion
    \/ FacetLeafrefTarget \/ FacetLeafrefDangling \/ SetPath
    \/ EnumWrap \/ MemberBuiltin \/ MemberReuse \/ MemberWrap \/ LoopDone
    \/ Return
    \/ CallAllChildren

Spec == Init /\ [][Next]_vars

\* The wrapping of the modules whose groupings use themselves, directly or
\* through each other; their leaves are of type string.
CyclicGroupingUses ==
    { u \in GroupingUses :
        \/ "G1" \in u["G1"]
        \/ "G2" \in u["G1"] /\ "G1" \in u["G2"] }

CycleInit ==
    /\ schema \in { s \in Schemas : /\ s.kind = "grouping"
                                    /\ s.usesOf \in CyclicGroupingUses
                                    /\ s.usesOf["C2"] = {}
                                    /\ s.aug["A2"].mod = "M"
                                    /\ s.aug["A2"].at = "C1" }
    /\ heap = <<>>
    /\ all_nodes = {}
    /\ derived_types = <<>>
    /\ stack = <<>>
    /\ status = "init"
    /\ keylog = {}
    /\ wools = <<>>
    /\ result = NoResult
    /\ classes = <<>>
    /\ calls = <<>>

CycleNext ==
    \/ Start
    \/ WrapChild \/ SkipChild \/ ChildrenDone
    \/ UsesReuse \/ UsesFresh \/ UsesDone
    \/ AugmentPlainChild \/ AugmentSeenChild \/ AugmentNewChild
    \/ AugmentUsesReuse \/ AugmentUsesFresh \/ AugmentUsesDone \/ AugmentDone
    \/ TypeBuiltin \/ FacetNone
    \/ Return

CycleSpec == CycleInit /\ [][CycleNext]_vars /\ WF_vars(CycleNext)

----------------------------------------------------------------------------
(* The backends: Wool creation and the registration of wrapper classes *)

\* The number of wools created.
MaxWools == 3

WoolKeywords == {"leaf", "list"}

\* Wrapper classes; A1 is derived from A.
WoolClasses == {"A", "A1"}

\* The first of cls.mro()[1:] that is a wrapper class, "none" when there is
\* none.
BaseOf(cls) == IF cls = "A1" THEN "A" ELSE "none"

\* An empty _yang_wrappers dict: no keyword has an entry.
NoWrappers == [k \in WoolKeywords |-> "none"]

\* Wool.__init__: _yang_wrappers is a copy of the parent's dict as it is
\* now.  own, the keywords registered on this wool itself, is kept for the
\* properties only.
NewWool(ws, parent) ==
    [parent |-> parent,
     wrappers |-> IF parent # None THEN ws[parent].wrappers ELSE NoWrappers,
     own |-> {}]

\* Wool._selfify: the class, bound to this wool (the class itself when its
\* WOOL is this wool, else a class derived from it whose WOOL is this wool).
Selfify(ws, w, cls) ==
    [base |-> cls, WOOL |-> w]

\* Wool.get(name): None when the dict of this wool has no entry.
WoolLookup(ws, w, k) ==
    IF ws[w].wrappers[k] = "none" THEN "none"
    ELSE Selfify(ws, w, ws[w].wrappers[k]).base

\* The default wool is created without a parent, every other wool by
\* register() with a registered wool as its parent.
CreateWool ==
    /\ Len(wools) < MaxWools
    /\ \E p \in (IF wools = <<>> THEN {None} ELSE DOMAIN wools) :
         wools' = Append(wools, NewWool(wools, p))
    /\ UNCHANGED wrapVars

\* NodeWrapperMeta.__init__ for class ...(..., yang=k) in the package of
\* wool w.
RegisterWrapper ==
    /\ \E w \in DOMAIN wools, k \in WoolKeywords, cls \in WoolClasses :
         wools' = [wools EXCEPT ![w].wrappers[k] = cls,
                                ![w].own = @ \cup {k}]
    /\ UNCHANGED wrapVars

\* NodeWrapperMeta.__init__ for a class without yang= in the package of
\* wool w: it takes the place of its base class in the dict of w.
RegisterSubclass ==
    /\ \E w \in DOMAIN wools, cls \in WoolClasses :
         LET hit == { k \in WoolKeywords : wools[w].wrappers[k] = BaseOf(cls) } IN
         /\ BaseOf(cls) # "none"
         /\ hit # {}
         /\ wools' = [wools EXCEPT
                        ![w].wrappers = [k \in WoolKeywords |->
                                           IF k \in hit THEN cls ELSE @[k]],
                        ![w].own = @ \cup hit]
    /\ UNCHANGED wrapVars

WoolInit ==
    /\ schema = CHOOSE s \in Schemas : s.kind = "typed"
    /\ heap = <<>>
    /\ all_nodes = {}
    /\ derived_types = <<>>
    /\ stack = <<>>
    /\ status = "init"
    /\ keylog = {}
    /\ wools = <<>>
    /\ result = NoResult
    /\ classes = <<>>
    /\ calls = <<>>

WoolNext == CreateWool \/ RegisterWrapper \/ RegisterSubclass

WoolSpec == WoolInit /\ [][WoolNext]_vars

----------------------------------------------------------------------------
(* The classes of a module: Module.add_class and Module.del_class *)

\* How many add_class and del_class calls one module gets.
MaxCalls == 4

ClassNames == {"A", "B"}

\* The wrapped descriptions offered under a class name: they differ in the
\* number and in the names of their children.
Descriptions ==
    { [id |-> 1, children |-> {"x"}],
      [id |-> 2, children |-> {"x", "y"}],
      [id |-> 3, children |-> {"y"}] }

\* add_class that assigns also when the name is already there.
AddClassAlways(name, d) ==
    /\ Len(calls) < MaxCalls
    /\ classes' = OdSet(classes, name, d)
    /\ calls' = Append(calls, [op |-> "add", name |-> name, d |-> d,
                               raised |-> FALSE])
    /\ UNCHANGED <<schema, heap, all_nodes, derived_types, stack, status,
                   keylog, wools, result>>

\* Lines 408-437: a name already in classes is only logged, with warnings
\* when the children differ; a new name is entered.
AddClass(name, d) ==
    /\ Len(calls) < MaxCalls
    /\ classes' = IF OdHas(classes, name) THEN classes
                  ELSE OdSet(classes, name, d)
    /\ calls' = Append(calls, [op |-> "add", name |-> name, d |-> d,
                               raised |-> FALSE])
    /\ UNCHANGED <<schema, heap, all_nodes, derived_types, stack, status,
                   keylog, wools, result>>

\* Lines 439-445: classes.pop(name) removes the entry, and raises KeyError
\* when there is none.
DelClass(name) ==
    /\ Len(calls) < MaxCalls
    /\ classes' = SelectSeq(classes, LAMBDA e : e[1] # name)
    /\ calls' = Append(calls, [op |-> "del", name |-> name,
                               d |-> [id |-> 0, children |-> {}],
                               raised |-> ~OdHas(classes, name)])
    /\ UNCHANGED <<schema, heap, all_nodes, derived_types, stack, status,
                   keylog, wools, result>>

AddSomeClass == \E name \in ClassNames, d \in Descriptions : AddClass(name, d)

DelSomeClass == \E name \in ClassNames : DelClass(name)

\* A module right after Module.__init__: classes is an empty OrderedDict.
ClassInit ==
    /\ schema = CHOOSE s \in Schemas : s.kind = "typed"
    /\ heap = <<>>
    /\ all_nodes = {}
    /\ derived_types = <<>>
    /\ stack = <<>>
    /\ status = "init"
    /\ keylog = {}
    /\ wools = <<>>
    /\ result = NoResult
    /\ classes = <<>>
    /\ calls = <<>>

ClassNext == AddSomeClass \/ DelSomeClass

ClassSpec == ClassInit /\ [][ClassNext]_vars

----------------------------------------------------------------------------
(* Properties *)

\* The literal uses statements of the statement wrapper w wraps.
LiteralUses(w) == Range(Search(heap[w].stmt, "uses"))

\* The uses statements in the bodies of the augments that contribute a child
\* to the statement wrapper w wraps.
AugmentBodyUses(w) ==
    UNION { Range(Search(IAugment(c), "uses")) :
              c \in { x \in IChildren(heap[w].stmt) : IAugment(x) # NoStmt } }

\* parent-name/own-name of a grouping or typedef definition.
DefinitionKey(d) == Arg(ParentStmt(d)) \o Slash \o Arg(d)

\* C1: when wrap_module has returned, any two wrapped nodes that each carry
\* a literal uses of the same grouping G hold the same wrapped instance
\* under G's name in their uses.
DedupIdempotence ==
    status = "done" =>
      \A a, b \in DOMAIN heap :
        \A ua \in LiteralUses(a), ub \in LiteralUses(b) :
          IGrouping(ua) = IGrouping(ub) =>
            LET name == Arg(IGrouping(ua)) IN
            /\ OdHas(heap[a].uses, name)
            /\ OdHas(heap[b].uses, name)
            /\ OdGet(heap[a].uses, name) = OdGet(heap[b].uses, name)

\* The grouping definitions included anywhere in the wrapped tree, by a
\* literal uses or by a uses of an augment body.
IncludedGroupings ==
    { IGrouping(u) : u \in UNION { LiteralUses(w) : w \in DOMAIN heap } }
    \cup { UsesTarget(u) : u \in UNION { AugmentBodyUses(w) : w \in DOMAIN heap } }

\* C2: when wrap_module has returned, all_nodes['grouping'] has exactly one
\* entry per (defining parent, name) pair of the included groupings.
NoCrossTreeDuplication ==
    status = "done" =>
      /\ { e.key : e \in { x \in all_nodes : x.kw = "grouping" } }
           = { DefinitionKey(g) : g \in IncludedGroupings }
      /\ \A e1, e2 \in all_nodes :
           e1.kw = e2.kw /\ e1.key = e2.key => e1 = e2

\* C3: every ledger key a use-site computes for a grouping, from a literal
\* uses or from a uses of an augment body, is parent-name/own-name of the
\* grouping the uses resolves to.
KeyStability ==
    \A e \in keylog : e.key = DefinitionKey(e.target)

\* The typed nodes of the schema that declare the type name of typedef t.
Declarers(t) == { o \in TypedOwners : TypeOf(o).arg = Arg(t) }

\* C4: a typedef whose name two or more typed nodes declare is wrapped at
\* most once, and what derived_types holds under a name is a wrapper of the
\* typedef of that name.
TypedefReuse ==
    /\ \A t \in {"T1", "T2"} :
         schema.kind = "typed" /\ Cardinality(Declarers(t)) >= 2 =>
           Cardinality({ w \in DOMAIN heap : heap[w].stmt = t }) <= 1
    /\ \A i \in DOMAIN derived_types :
         heap[derived_types[i][2]].stmt = TypedefNamed(derived_types[i][1])

\* The typedefs reachable from typedef t through type references, direct or
\* through a union member.
TypedefRefs(t) ==
    { TypedefNamed(n) : n \in {TypeOf(t).arg} \cup Range(TypeOf(t).members) }
    \ {NoStmt}

CyclicTypedefs ==
    \/ "T1" \in TypedefRefs("T1")
    \/ "T2" \in TypedefRefs("T2")
    \/ "T2" \in TypedefRefs("T1") /\ "T1" \in TypedefRefs("T2")

\* C5: wrapping a module whose typedefs reference each other does not run
\* into unbounded recursion.
TypedefCyclesTerminate ==
    schema.kind = "typed" /\ CyclicTypedefs => status # "RecursionError"

\* Only a cycle of typedefs exhausts the recursion limit.
RecursionOnlyOnTypedefCycle ==
    status = "RecursionError" => schema.kind = "typed" /\ CyclicTypedefs

CyclicGroupings ==
    \/ "G1" \in schema.usesOf["G1"]
    \/ "G2" \in schema.usesOf["G1"] /\ "G1" \in schema.usesOf["G2"]

AugmentInclusion ==
    status = "done" =>
      \A w \in DOMAIN heap :
        (heap[w].stmt = "C1" /\ \E u \in AugmentBodyUses(w) : UsesTarget(u) = "G2")
        => /\ ReadIsAugmented(heap, w) = "True"
           /\ OdHas(heap[w].uses, <<"g2">>)
           /\ heap[OdGet(heap[w].uses, <<"g2">>)].stmt = "G2"

\* C8: reading is_augmented on a wrapped grouping-capable node gives True
\* when one of its effective children comes from an augment, and False when
\* none does.
AugmentationIsolation ==
    status = "done" =>
      \A w \in DOMAIN heap :
        heap[w].cls \in GrouponderClasses =>
          ReadIsAugmented(heap, w) =
            IF \E c \in IChildren(heap[w].stmt) : IAugment(c) # NoStmt
            THEN "True" ELSE "False"

\* The wrapped leaves whose type is leafref.
LeafrefNodes ==
    { w \in DOMAIN heap :
        /\ heap[w].cls = "leaf"
        /\ SearchOne(heap[w].stmt, "type") # NoStmt
        /\ Arg(SearchOne(heap[w].stmt, "type")) = S_leafref }

\* C9: wrapping a leafref leaf does not raise; the leaf has the raw path of
\* its path statement in path; it has no reference when the target is
\* unresolved and a wrapped Leaf of the target when it is resolved.
DanglingLeafref ==
    /\ status # "IndexError"
    /\ status = "done" =>
         \A w \in LeafrefNodes :
           LET t == SearchOne(heap[w].stmt, "type") IN
           /\ heap[w].has_path
           /\ heap[w].path = Arg(SearchOne(t, "path"))
           /\ ITargetNode(t) = NoStmt => heap[w].reference = None
           /\ ITargetNode(t) # NoStmt =>
                /\ heap[w].reference # None
                /\ heap[heap[w].reference].cls = "leaf"
                /\ heap[heap[w].reference].stmt = ITargetNode(t)

\* The wrapped typed nodes whose type name is neither builtin nor a typedef.
UnknownTypeNodes ==
    { w \in DOMAIN heap :
        /\ heap[w].cls \in {"leaf", "leaf-list", "typedef"}
        /\ SearchOne(heap[w].stmt, "type") # NoStmt
        /\ Arg(SearchOne(heap[w].stmt, "type")) \notin TYPE_PATTERNS
        /\ ITypedef(SearchOne(heap[w].stmt, "type")) = NoStmt }

\* C10: a typed node of unknown type does not make the wrapping raise, and
\* its data_type stays unset.
UnknownTypeNonFatal ==
    \A w \in UnknownTypeNodes :
      /\ ~heap[w].has_data_type
      /\ status # "AttributeError"

\* The wrappers whose constructor has returned.
Constructed(w) == w \in DOMAIN heap /\ \A i \in DOMAIN stack : stack[i].w # w

\* C11: a child whose keyword has no registered wrapper is skipped without
\* an error: the keys of children of every constructed grouping-capable
\* node are exactly the arguments of its effective children whose keyword
\* has a registered wrapper.
UnsupportedSkipped ==
    \A w \in DOMAIN heap :
      (Constructed(w) /\ heap[w].cls \in GrouponderClasses) =>
        OdKeys(heap[w].children) =
          { Arg(c) : c \in { x \in IChildren(heap[w].stmt) :
                              Keyword(x) \in YangWrappers } }

\* The module has been wrapped and container c2, whose only child is an
\* anyxml, has no children.
UnsupportedChildSkipped ==
    /\ status = "done"
    /\ \E w \in DOMAIN heap :
         /\ heap[w].stmt = "C2" /\ heap[w].children = <<>>
         /\ \E c \in IChildren("C2") : Keyword(c) \notin YangWrappers

\* The constructed typed nodes with a type substatement that names a builtin
\* or a typedef.
TypedNodes ==
    { w \in DOMAIN heap :
        /\ Constructed(w)
        /\ heap[w].cls \in {"leaf", "leaf-list", "typedef"}
        /\ SearchOne(heap[w].stmt, "type") # NoStmt
        /\ \/ Arg(SearchOne(heap[w].stmt, "type")) \in TYPE_PATTERNS
           \/ ITypedef(SearchOne(heap[w].stmt, "type")) # NoStmt }

\* C12: on every typed node, under every backend override list,
\* is_build_in_type says whether the type name is a builtin, and the
\* enumeration, union and leafref facets are attached exactly for the
\* declared types enumeration, union and leafref.
TypeClassificationTotality ==
    \A w \in TypedNodes :
      LET arg == Arg(SearchOne(heap[w].stmt, "type")) IN
      /\ heap[w].has_is_build_in_type
      /\ heap[w].is_build_in_type = (arg \in TYPE_PATTERNS)
      /\ (heap[w].enumeration # None) = (arg = S_enumeration)
      /\ (heap[w].union # None) = (arg = S_union)
      /\ (heap[w].reference # None \/ heap[w].has_path) = (arg = S_leafref)

\* The name the backend gives the declared type arg of a typed node.
CanonicalType(arg) == IF arg \in TYPE_PATTERNS THEN BuiltinDataType(arg) ELSE arg

\* C12 (amended): on every typed node is_build_in_type says whether the
\* declared type name is a builtin, data_type is the backend's name for the
\* declared type, and the enumeration, union and leafref facets are attached
\* exactly when data_type, the name after the backend's override rules, is
\* enumeration, union or leafref.
TypeClassificationByDataType ==
    \A w \in TypedNodes :
      LET arg == Arg(SearchOne(heap[w].stmt, "type")) IN
      /\ heap[w].has_is_build_in_type
      /\ heap[w].is_build_in_type = (arg \in TYPE_PATTERNS)
      /\ heap[w].has_data_type
      /\ heap[w].data_type = CanonicalType(arg)
      /\ (heap[w].enumeration # None) = (heap[w].data_type = S_enumeration)
      /\ (heap[w].union # None) = (heap[w].data_type = S_union)
      /\ (heap[w].reference # None \/ heap[w].has_path)
           = (heap[w].data_type = S_leafref)

\* The module has been wrapped and a node declared enumeration, which the
\* backend's rules rename, has no enumeration facet.
EnumerationRenamed ==
    \E w \in TypedNodes :
         /\ Arg(SearchOne(heap[w].stmt, "type")) = S_enumeration
         /\ heap[w].data_type = <<"Enum">>
         /\ heap[w].enumeration = None
         /\ status = "done"

\* The entry a lookup that walks from wool w to its ancestors finds for k:
\* the entry registered on w itself, else what the parent has now.
RECURSIVE LayeredEntry(_, _, _)
LayeredEntry(ws, w, k) ==
    IF k \in ws[w].own THEN ws[w].wrappers[k]
    ELSE IF ws[w].parent = None THEN "none"
    ELSE LayeredEntry(ws, ws[w].parent, k)

\* C13: a lookup of keyword k on a wool gives the wool's own entry for k,
\* else the entry its parent, transitively, has for k now, else None.
BackendLayering ==
    \A w \in DOMAIN wools, k \in WoolKeywords :
      WoolLookup(wools, w, k) = LayeredEntry(wools, w, k)


\* The wrappers that have to be in the ledger: all but the root and the
\* wrappers of transient kinds.
LedgerNodes ==
    { w \in DOMAIN heap :
        heap[w].parent # None /\ YangType(heap, w) \notin TransientKinds }

\* C14: once wrap_module has returned, all_nodes holds neither the root nor
\* a node of a transient kind (enum, input, output, type), and every other
\* wrapped node is found in all_nodes under its own keyword and its own key,
\* once: none is missing and none was replaced by another node of that key.
LedgerRegistration ==
    status = "done" =>
        /\ \A e \in all_nodes :
             /\ heap[e.w].parent # None
             /\ e.kw # "module"
             /\ e.kw \notin TransientKinds
        /\ \A w \in LedgerNodes :
             /\ Lookup(all_nodes, YangType(heap, w), GenerateKey(heap, w)) = w
             /\ Cardinality({ e \in all_nodes : e.w = w }) = 1


\* C15: a wrapped node whose keyword is neither grouping nor typedef has the
\* key "<its parent's key>/<its own name>", and two different wrapped nodes
\* of one such keyword never have the same key, nodes wrapped as leafref
\* targets or inside groupings included.
StructuralKeyUniqueness ==
    \A w1, w2 \in DOMAIN heap :
        /\ YangType(heap, w1) \notin {"grouping", "typedef"}
        /\ heap[w1].parent # None
        => /\ GenerateKey(heap, w1) =
                  GenerateKey(heap, heap[w1].parent) \o Slash
                      \o YangName(heap, w1)
           /\ w1 # w2 /\ YangType(heap, w2) = YangType(heap, w1)
                  => GenerateKey(heap, w2) # GenerateKey(heap, w1)


ReferencedTypeNames ==
    { Arg(SearchOne(heap[w].stmt, "type")) :
        w \in { x \in DOMAIN heap :
                  /\ SearchOne(heap[x].stmt, "type") # NoStmt
                  /\ Arg(SearchOne(heap[x].stmt, "type")) \notin TYPE_PATTERNS } }

TopTotalIdempotent ==
    \A n \in DOMAIN heap :
        /\ heap[Top(heap, n)].cls = "module"
        /\ heap[Top(heap, n)].parent = None
        /\ heap[n].parent = None => Top(heap, n) = n
        /\ Top(heap, Top(heap, n)) = Top(heap, n)

\* A finished tree with a node two levels or more below the root.
TopFromNestedNode ==
    /\ status = "done"
    /\ \E n \in DOMAIN heap :
         /\ heap[n].parent # None
         /\ heap[heap[n].parent].parent # None
         /\ Top(heap, n) # heap[n].parent


\* C18: the wrapper of the module has parent None and no other wrapped node
\* has; every wrapper stored in the children of a node P has P as parent.
ParentLinks ==
    \A p \in DOMAIN heap :
        /\ heap[p].parent = None <=> heap[p].stmt = "M"
        /\ \A q \in DOMAIN heap :
             heap[p].parent = None /\ heap[q].parent = None => p = q
        /\ \A i \in DOMAIN heap[p].children :
             heap[heap[p].children[i][2]].parent = p

\* A finished tree in which a node below the root has children of its own.
ChildrenBelowRoot ==
    /\ status = "done"
    /\ \E p \in DOMAIN heap :
         heap[p].parent # None /\ heap[p].children # <<>>


\* C19: a wrapped node with a config substatement has config True when that
\* substatement's argument is "true" and False when it is "false", whatever
\* the node itself is called.
ConfigExtraction ==
    \A w \in DOMAIN heap :
        SearchOne(heap[w].stmt, "config") # NoStmt =>
            /\ heap[w].has_config
            /\ heap[w].config =
                   (Arg(SearchOne(heap[w].stmt, "config")) = <<"true">>)


\* The keys of an ordered mapping, in its order.
OdKeySeq(od) == [i \in DOMAIN od |-> od[i][1]]

\* r holds every entry of the children of w, then the entries of its uses
\* under names no child has; a name both have stands for the uses entry.
MergedChildren(h, w, r) ==
    /\ OdKeySeq(r) =
           OdKeySeq(h[w].children)
           \o SelectSeq(OdKeySeq(h[w].uses),
                        LAMBDA k : ~OdHas(h[w].children, k))
    /\ \A i \in DOMAIN r :
           r[i][2] = IF OdHas(h[w].uses, r[i][1])
                     THEN OdGet(h[w].uses, r[i][1])
                     ELSE OdGet(h[w].children, r[i][1])
    /\ h[w].uses = <<>> => r = h[w].children

\* C20: all_children() returns an ordered mapping with every entry of
\* children followed by every entry of uses, a uses entry replacing the
\* child of the same name; it changes neither children nor uses; it equals
\* children when uses is empty.
AllChildrenMerge ==
    [][result' # result =>
           /\ heap' = heap
           /\ MergedChildren(heap', result'.of, result'.value)]_vars

\* all_children() was called on a node that has a child and a used grouping
\* of one name.
AllChildrenNameClash ==
    /\ result.called
    /\ \E k \in OdKeys(heap[result.of].children) :
           OdHas(heap[result.of].uses, k)
    /\ Len(result.value) > 1


\* C21: when wrap_module has returned, the uses of a grouping-capable node
\* has an entry named g exactly when a literal substatement of the node is
\* "uses g" or the body of an augment that contributes a child to the node
\* has "uses g"; with neither, uses is empty.
UsesContent ==
    status = "done" =>
      \A w \in DOMAIN heap :
        heap[w].cls \in GrouponderClasses =>
          OdKeys(heap[w].uses) =
            { Arg(u) : u \in LiteralUses(w) \cup AugmentBodyUses(w) }


\* The add_class calls for a name, by their position in the history.
AddCalls(name) ==
    { i \in DOMAIN calls : calls[i].op = "add" /\ calls[i].name = name }

\* C22: as long as no del_class was called for a name, classes holds under
\* it the description of the first add_class call for it; no later
\* add_class replaces the entry and none raises, whatever the children of
\* the descriptions are.
FirstClassKept ==
    \A name \in ClassNames :
        (/\ AddCalls(name) # {}
         /\ \A i \in DOMAIN calls :
                ~(calls[i].op = "del" /\ calls[i].name = name))
        => /\ OdHas(classes, name)
           /\ OdGet(classes, name) =
                  calls[CHOOSE i \in AddCalls(name) :
                            \A j \in AddCalls(name) : i <= j].d
           /\ \A i \in AddCalls(name) : ~calls[i].raised

\* A name was added twice, with descriptions of different children, and
\* never deleted.
ClassAddedTwice ==
    \E i, j \in AddCalls("A") :
        /\ i < j
        /\ calls[i].d.children # calls[j].d.children
        /\ \A k \in DOMAIN calls : calls[k].op = "add"


\* C23: when wrap_module has returned, a node A with a literal uses of a
\* grouping G and a node B that gets children from an augment whose body
\* uses G hold the same wrapped instance under G's name.
AugmentUsesDeduplicated ==
    status = "done" =>
      \A a, b \in DOMAIN heap :
        \A ua \in LiteralUses(a), ub \in AugmentBodyUses(b) :
          IGrouping(ua) = UsesTarget(ub) =>
            LET name == Arg(UsesTarget(ub)) IN
            /\ OdHas(heap[a].uses, name)
            /\ OdHas(heap[b].uses, name)
            /\ OdGet(heap[b].uses, name) = OdGet(heap[a].uses, name)


\* C24: when wrap_module has returned, every uses statement in the body of
\* an augment that contributes a child to a node has been resolved at that
\* node, once: its key was looked up there, and unless the lookup found a
\* grouping there is one wrapper made for it, also when two augments of one
\* module target the node.
PerAugmentProcessing ==
    status = "done" =>
      \A w \in DOMAIN heap :
        \A u \in AugmentBodyUses(w) :
          LET lookups == { e \in keylog : /\ e.site = w /\ e.via = "augment"
                                          /\ e.key = AugmentUsesKey(u) }
              made == { x \in DOMAIN heap : heap[x].stmt = u }
          IN  /\ lookups # {}
              /\ Cardinality(made) <= 1
              /\ (\A e \in lookups : e.found = None) => Cardinality(made) = 1


\* C25: every wrapper stored in the uses of a node is a Grouping whose
\* parent is the wrapper of the module, never the node that uses it, be it
\* wrapped at that node or taken from the ledger, for a literal uses or for
\* the uses of an augment body.
GroupingsRootedAtModule ==
    \A w \in DOMAIN heap :
        \A i \in DOMAIN heap[w].uses :
            LET g == heap[w].uses[i][2] IN
            /\ heap[g].cls = "grouping"
            /\ heap[g].parent # None
            /\ heap[heap[g].parent].stmt = "M"
            /\ heap[heap[g].parent].parent = None

\* A finished tree where a container holds a grouping it wrapped itself,
\* another node holds the same one from the ledger, and a container holds
\* one from an augment body.
GroupingsOfAllOrigins ==
    /\ status = "done"
    /\ \E e \in keylog :
         /\ e.via = "uses" /\ e.found = None
         /\ heap[e.site].parent # None
         /\ heap[e.site].uses # <<>>
    /\ \E e \in keylog : e.via = "uses" /\ e.found # None
    /\ \E e \in keylog : e.via = "augment" /\ heap[e.site].uses # <<>>


\* The names under which the children of statement s are stored, in the
\* order of s.i_children: those whose keyword has a wrapper.
SupportedChildNames(s) ==
    LET sup == SelectSeq(IChildrenSeq(s),
                         LAMBDA c : Keyword(c) \in YangWrappers)
    IN  [i \in DOMAIN sup |-> Arg(sup[i])]

\* The names of the groupings the literal uses statements of s resolve to,
\* in the order of the statements.
LiteralUsesNames(s) ==
    LET us == Search(s, "uses")
    IN  [i \in DOMAIN us |-> Arg(IGrouping(us[i]))]

\* C26: when wrap_module has returned, children of a node lists the
\* supported children in the order of the statement's i_children, and uses
\* of a node without augmented children lists the groupings in the order
\* of the uses substatements; so every wrapping of a statement gives the
\* same order.
InsertionOrder ==
    status = "done" =>
      \A w \in DOMAIN heap :
        heap[w].cls \in GrouponderClasses /\ heap[w].stmt \notin UsesStmts =>
          /\ Range(IChildrenSeq(heap[w].stmt)) = IChildren(heap[w].stmt)
          /\ OdKeySeq(heap[w].children) = SupportedChildNames(heap[w].stmt)
          /\ AugmentBodyUses(w) = {} =>
               OdKeySeq(heap[w].uses) = LiteralUsesNames(heap[w].stmt)


\* The wrapped nodes whose type statement names a builtin type and whose
\* data_type has been assigned.
BuiltinTypedNodes ==
    { w \in DOMAIN heap :
        /\ heap[w].has_data_type
        /\ SearchOne(heap[w].stmt, "type") # NoStmt
        /\ Arg(SearchOne(heap[w].stmt, "type")) \in TYPE_PATTERNS }

\* The rules of the backend, by position, whose pattern is the whole of b.
WholeRules(b) ==
    { i \in DOMAIN schema.patterns : schema.patterns[i][1] = b }

\* The rules of the backend, by position, whose pattern b starts with.
PrefixRules(b) ==
    { i \in DOMAIN schema.patterns :
        /\ Len(schema.patterns[i][1]) <= Len(b)
        /\ \A k \in 1..Len(schema.patterns[i][1]) :
               schema.patterns[i][1][k] = b[k] }

\* C27: data_type of a node of builtin type b is the override name of the
\* first rule whose pattern matches b and b itself when none matches; a
\* rule whose pattern does not match the whole of b does not apply.
TypeOverrideWholeMatch ==
    \A w \in BuiltinTypedNodes :
        LET b == Arg(SearchOne(heap[w].stmt, "type")) IN
        heap[w].data_type =
            IF WholeRules(b) = {} THEN b
            ELSE schema.patterns[CHOOSE i \in WholeRules(b) :
                                     \A j \in WholeRules(b) : i <= j][2]

\* C27, amended: data_type of a node of builtin type b is the override name
\* of the first rule, in list order, whose pattern matches at the start of
\* b, and b itself when no rule does; a rule whose pattern matches only a
\* prefix of b applies as well.
TypeOverrideFirstPrefixMatch ==
    \A w \in BuiltinTypedNodes :
        LET b == Arg(SearchOne(heap[w].stmt, "type")) IN
        heap[w].data_type =
            IF PrefixRules(b) = {} THEN b
            ELSE schema.patterns[CHOOSE i \in PrefixRules(b) :
                                     \A j \in PrefixRules(b) : i <= j][2]

\* A node of type uint32 has been wrapped under two rules that both match
\* at the start of the name, and has the name of the first.
FirstOfTwoRulesApplied ==
    /\ status = "done"
    /\ \E w \in BuiltinTypedNodes :
         /\ Arg(SearchOne(heap[w].stmt, "type")) = S_uint32
         /\ Cardinality(PrefixRules(S_uint32)) = 2
         /\ heap[w].data_type = <<"number">>


\* The runs of the typedef constructor for typedef t: on the typedef
\* statement itself or on a type statement that names it.
TypedefWrappers(t) ==
    { w \in DOMAIN heap :
        /\ heap[w].cls = "typedef"
        /\ \/ heap[w].stmt = t
           \/ /\ Keyword(heap[w].stmt) = "type"
              /\ ITypedef(heap[w].stmt) = t }

\* C28: in a module wrapped to its end the typedef constructor has run at
\* most once for each typedef, the references of type statements of leaves
\* and typedefs and of union members counted together.
TypedefWrappedOnce ==
    status = "done" =>
      \A t \in {"T1", "T2"} : Cardinality(TypedefWrappers(t)) <= 1


\* The wrapper a node holds for its literal uses statement u.
HeldFor(w, u) == OdGet(heap[w].uses, Arg(IGrouping(u)))

\* C29: when wrap_module has returned, two literal uses statements that
\* resolve to two different grouping definitions are answered by two
\* different wrapped groupings, and each wraps the definition its own uses
\* resolves to, also when the definitions have one name and their parents
\* have one name.
NoFalseSharing ==
    status = "done" =>
      \A a, b \in DOMAIN heap :
        \A ua \in LiteralUses(a), ub \in LiteralUses(b) :
          IGrouping(ua) # IGrouping(ub) =>
            /\ OdHas(heap[a].uses, Arg(IGrouping(ua)))
            /\ OdHas(heap[b].uses, Arg(IGrouping(ub)))
            /\ HeldFor(a, ua) # HeldFor(b, ub)
            /\ heap[HeldFor(a, ua)].stmt = IGrouping(ua)
            /\ heap[HeldFor(b, ub)].stmt = IGrouping(ub)


\* The wrapped nodes whose type statement names a typedef.
DerivedTypedNodes ==
    { w \in 1..Len(heap) :
        /\ heap[w].has_data_type
        /\ SearchOne(heap[w].stmt, "type") # NoStmt
        /\ ITypedef(SearchOne(heap[w].stmt, "type")) # NoStmt }

\* C30: for every typed node whose data_type is a non-builtin name N, the
\* entry derived_types[N] wraps exactly the typedef statement that the
\* node's own type statement resolves to, also when typedefs of one name are
\* defined in different scopes or one typedef is named with and without the
\* module prefix, once the construction has returned.
DerivedTypesMatchResolution ==
    status = "done" =>
        \A w \in DerivedTypedNodes :
            /\ OdHas(derived_types, heap[w].data_type)
            /\ heap[OdGet(derived_types, heap[w].data_type)].stmt
                   = ITypedef(SearchOne(heap[w].stmt, "type"))

====
